---------------------------- MODULE Spec2Model ----------------------------
(***************************************************************************)
(* Model of the dataset-construction stage (src/src/dataset_construction.py)*)
(* and of the batch loops of dataset_construction.main and                 *)
(* integrate_indicators.main.                                              *)
(*                                                                         *)
(* Conventions.                                                            *)
(*  - A column of a DataFrame is a sequence.  pandas positions 0..n-1 are  *)
(*    the sequence indices 1..n: position p is index p+1.                  *)
(*  - Labels are the integers the code stores: 0 Stable, 1 Upward,         *)
(*    2 Downward.                                                          *)
(*  - A price variation is a float in the code.  Here it is a record       *)
(*    [k, n, d]: k = "nan" (undefined), k = "inf" (division of a positive  *)
(*    close by a zero close), or k = "num" with the exact value n/d        *)
(*    percent (d > 0).  Float rounding is not modelled; the prices and     *)
(*    thresholds drawn below keep every variation away from a threshold.   *)
(*  - Every function of the file starts with df = df.copy() and returns    *)
(*    the copy, so each stage's output is a value of its own: one variable *)
(*    per stage.                                                           *)
(*  - main is modelled from the glob on: the output folder exists.         *)
(*  - A file is [name, kind, close]: kind "ok" (a time column and Close),  *)
(*    "notime" (Close, neither Datetime nor Date), "noclose" (no Close     *)
(*    column), "unreadable" (read_csv raises).  Names are 1..N, distinct   *)
(*    as the names of one folder are.                                      *)
(***************************************************************************)
EXTENDS Integers, Sequences, FiniteSets, TLC

VARIABLES
    csv_files,        \* main: the files glob returned, in glob's order
    fidx,             \* main: index in csv_files of the loop's file_path
    df_processed,     \* main: what process_file returned for the file
    df_clean,         \* integrate_indicators.main: df_processed.dropna()
    unwritable,       \* names under which the output folder takes no file
    written,          \* output folder: name -> the table saved under it
    notices,          \* the lines printed, oldest first
    threshold,        \* --threshold
    shift_hours,      \* --shift_hours
    close,            \* df['Close'] of the file being labelled
    price_variation,  \* df['Price_Variation'] after calculate_price_variation
    classified,       \* df['Anomaly'] returned by label_anomalies
    shifted,          \* df['Anomaly'] returned by apply_curve_shifting
    work,             \* handle_interleaved_anomalies: df['Anomaly'] of its copy
    series,           \* handle_interleaved_anomalies: anomaly_series
    row,              \* handle_interleaved_anomalies: the loop's i, as an index
    hist,             \* history: `work` at the start of each loop iteration
    pass,             \* 1: the resolver's call, 2: a second call on its result
    resolved,         \* df['Anomaly'] returned by handle_interleaved_anomalies
    rerun,            \* df['Anomaly'] returned by the second call
    pc                \* position in main / process_file

mainVars == <<csv_files, fidx, df_processed, df_clean, unwritable, written,
              notices>>

argVars == <<threshold, shift_hours>>

labelVars == <<close, price_variation, classified, shifted>>

resolverVars == <<work, series, row, hist, pass, resolved, rerun>>

vars == <<mainVars, argVars, labelVars, resolverVars, pc>>

-----------------------------------------------------------------------------
(* Bounds of the model. *)

MaxLen == 5

MaxShift == 2

MaxFiles == 3

(* Inputs. *)

Prices == {0, 95, 100, 105}

Thresholds == {1, 6}

Labels == {0, 1, 2}

WorkedClose == <<100, 100, 105, 100, 95, 95>>

SeqsUpTo(S, n) == UNION {[1..k -> S] : k \in 0..n}

CloseSeries == SeqsUpTo(Prices, MaxLen) \cup {WorkedClose}

LabelSeries == SeqsUpTo(Labels, MaxLen)

\* Python's None, among tables (records).
None == [none |-> TRUE]

\* A local variable no assignment has bound yet.
Unbound == [unbound |-> TRUE]

-----------------------------------------------------------------------------
(* Floats that the labelling reads. *)

NaN == [k |-> "nan", n |-> 0, d |-> 1]

Inf == [k |-> "inf", n |-> 1, d |-> 1]

Num(a, b) == [k |-> "num", n |-> a, d |-> b]

\* v > t for a float v and an integer t; False for NaN.
Gt(v, t) == \/ v.k = "inf"
            \/ v.k = "num" /\ v.n > t * v.d

\* v < t for a float v and an integer t; False for NaN and for +inf.
Lt(v, t) == v.k = "num" /\ v.n < t * v.d

\* Mutant of PctOf: the change is taken relative to the current close.
PctOfCurrentBase(prev, cur) ==
    IF cur = 0
    THEN IF prev = 0 THEN NaN ELSE Inf
    ELSE Num((cur - prev) * 100, cur)

\* (cur / prev - 1) * 100 of non-negative closes.
PctOf(prev, cur) ==
    IF prev = 0
    THEN IF cur = 0 THEN NaN ELSE Inf
    ELSE Num((cur - prev) * 100, prev)

\* Series.pct_change() * 100: row 0 has no previous row.
PctChange100(c) ==
    [i \in 1..Len(c) |-> IF i = 1 THEN NaN ELSE PctOf(c[i-1], c[i])]

\* Mutant of ShiftMinus1: the mask is taken without shift(-1).
ShiftNone(s) == s

\* Series.shift(-1): row i takes row i+1, the last row is NaN.
ShiftMinus1(s) ==
    [i \in 1..Len(s) |-> IF i < Len(s) THEN s[i+1] ELSE NaN]

-----------------------------------------------------------------------------
(* calculate_price_variation *)

calculate_price_variation(c) == PctChange100(c)

\* Mutant of label_anomalies: the codes of the two masks are exchanged.
label_anomalies_swapped(pv, th) ==
    LET nxt  == ShiftMinus1(pv)
        a0   == [i \in 1..Len(pv) |-> 0]
        a1   == [i \in 1..Len(pv) |-> IF Gt(nxt[i], th) THEN 2 ELSE a0[i]]
        a2   == [i \in 1..Len(pv) |-> IF Lt(nxt[i], 0 - th) THEN 1 ELSE a1[i]]
    IN  a2

(* label_anomalies: the column starts at 0, the upward mask writes 1, then   *)
(* the downward mask writes 2.                                               *)

label_anomalies(pv, th) ==
    LET nxt  == ShiftMinus1(pv)
        a0   == [i \in 1..Len(pv) |-> 0]
        a1   == [i \in 1..Len(pv) |-> IF Gt(nxt[i], th) THEN 1 ELSE a0[i]]
        a2   == [i \in 1..Len(pv) |-> IF Lt(nxt[i], 0 - th) THEN 2 ELSE a1[i]]
    IN  a2


-----------------------------------------------------------------------------
(* apply_curve_shifting *)

Max(a, b) == IF a >= b THEN a ELSE b

Min(a, b) == IF a <= b THEN a ELSE b

Indices(n) == [i \in 1..n |-> i]

\* Mutant of AnomalyIndices: the anomalous rows, descending.
AnomalyIndicesDesc(a) ==
    LET asc == SelectSeq(Indices(Len(a)), LAMBDA i : a[i] > 0)
    IN  [k \in 1..Len(asc) |-> asc[Len(asc) + 1 - k]]

\* df.index[df['Anomaly'] > 0].tolist(): the anomalous rows, ascending.
AnomalyIndices(a) == SelectSeq(Indices(Len(a)), LAMBDA i : a[i] > 0)

\* Mutant of WindowStart: the window reaches one row further back.
WindowStartLong(idx, sh) == Max(1, idx - sh - 1)

\* start_idx = max(0, idx - shift_hours), as a sequence index.
WindowStart(idx, sh) == Max(1, idx - sh)

\* Mutant of ShiftLoop: the window runs forward, over idx..idx + shift_hours.
RECURSIVE ShiftLoopForward(_, _, _)
ShiftLoopForward(cur, idxs, sh) ==
    IF idxs = <<>>
    THEN cur
    ELSE LET idx           == Head(idxs)
             anomaly_label == cur[idx]
             nxt == [j \in 1..Len(cur) |->
                        IF idx <= j /\ j <= idx + sh
                        THEN anomaly_label ELSE cur[j]]
         IN  ShiftLoopForward(nxt, Tail(idxs), sh)

\* The for loop: the label is read from the working column, then written
\* over the label slice start_idx:idx, which includes both ends.
RECURSIVE ShiftLoop(_, _, _)
ShiftLoop(cur, idxs, sh) ==
    IF idxs = <<>>
    THEN cur
    ELSE LET idx           == Head(idxs)
             anomaly_label == cur[idx]
             start_idx     == WindowStart(idx, sh)
             nxt == [j \in 1..Len(cur) |->
                        IF start_idx <= j /\ j <= idx
                        THEN anomaly_label ELSE cur[j]]
         IN  ShiftLoop(nxt, Tail(idxs), sh)

apply_curve_shifting(a, sh) == ShiftLoop(a, AnomalyIndices(a), sh)

-----------------------------------------------------------------------------
(* handle_interleaved_anomalies, one loop iteration at a time. *)

\* Mutant of FirstRow: range(2, len(anomaly_series)).
FirstRowSkipped == 2 + 1

\* range(1, len(anomaly_series)) starts at position 1: sequence index 2.
FirstRow == 2

\* The two ifs of the loop body, on anomaly_series.
Conflict(x, y) == x # 0 /\ y # 0 /\ x # y

\* Mutant of LoopBody: only the current row is set to 0.
LoopBodyCurrentOnly(s, col, k) ==
    IF Conflict(s[k], s[k-1])
    THEN [col EXCEPT ![k] = 0]
    ELSE col

\* Mutant of LoopBody: the previous row takes the current row's label.
LoopBodyOverwritePrevious(s, col, k) ==
    IF Conflict(s[k], s[k-1])
    THEN [col EXCEPT ![k-1] = s[k]]
    ELSE col

\* Mutant of LoopBody: the current row takes the previous row's label and
\* the previous row is set to 0.
LoopBodyCopyLabel(s, col, k) ==
    IF Conflict(s[k], s[k-1])
    THEN [col EXCEPT ![k] = s[k-1], ![k-1] = 0]
    ELSE col

\* The loop body at row k: the test reads anomaly_series (s), the two
\* df.at assignments write the column of df (col).
LoopBody(s, col, k) ==
    IF Conflict(s[k], s[k-1])
    THEN [col EXCEPT ![k] = 0, ![k-1] = 0]
    ELSE col

\* Mutant of SeriesAfterWrite: anomaly_series is a copy taken before the loop.
SeriesCopy(s, col) == s

\* anomaly_series = df['Anomaly'] is the column of df itself, not a copy of
\* it: after a df.at write, anomaly_series reads the written column.
SeriesAfterWrite(s, col) == col

-----------------------------------------------------------------------------
(* Tables and printed lines. *)

\* The table process_file returns; `origin` is the file it was read from.
Labeled(f, pv, a) ==
    [origin |-> f.name, close |-> f.close, price_variation |-> pv,
     anomaly |-> a]

Notice(what, name) == <<what, name>>

NoFile == [k \in {} |-> None]

-----------------------------------------------------------------------------
(* dataset_construction.main and process_file, one action per call. *)

FileKinds == {"ok", "notime", "noclose", "unreadable"}

\* The files of a one-file batch: every close series.
AnyFile ==
    {[name |-> 1, kind |-> k, close |-> c] :
        k \in {"ok"}, c \in CloseSeries}
    \cup {[name |-> 1, kind |-> k, close |-> c] :
        k \in FileKinds \ {"ok"}, c \in {<<100, 105, 100>>}}

InitLocals ==
    /\ df_processed = None
    /\ written = NoFile
    /\ notices = <<>>
    /\ close = <<>>
    /\ price_variation = <<>>
    /\ classified = <<>>
    /\ shifted = <<>>
    /\ work = <<>>
    /\ series = <<>>
    /\ row = FirstRow
    /\ hist = <<>>
    /\ pass = 1
    /\ resolved = <<>>
    /\ rerun = <<>>

Init ==
    /\ csv_files \in {<<>>} \cup {<<f>> : f \in AnyFile}
    /\ fidx = 1
    /\ unwritable \in {{}, {1}}
    /\ threshold \in Thresholds
    /\ shift_hours \in 0..MaxShift
    /\ df_clean = Unbound
    /\ InitLocals
    /\ pc = "loop"

File == csv_files[fidx]

\* if not csv_files: print, return
MainNoFiles ==
    /\ pc = "loop"
    /\ csv_files = <<>>
    /\ notices' = Append(notices, Notice("no_csv_files", 0))
    /\ pc' = "done"
    /\ UNCHANGED <<csv_files, fidx, df_processed, df_clean, unwritable,
                   written, argVars, labelVars, resolverVars>>

\* The for loop is over.
MainReturn ==
    /\ pc = "loop"
    /\ csv_files # <<>>
    /\ fidx > Len(csv_files)
    /\ pc' = "done"
    /\ UNCHANGED <<mainVars, argVars, labelVars, resolverVars>>

\* print Processing, process_file: pd.read_csv returns the table.
ReadCsv ==
    /\ pc = "loop"
    /\ fidx <= Len(csv_files)
    /\ File.kind # "unreadable"
    /\ notices' = Append(notices, Notice("processing", File.name))
    /\ pc' = "read"
    /\ UNCHANGED <<csv_files, fidx, df_processed, df_clean, unwritable,
                   written, argVars, labelVars, resolverVars>>

\* Mutant of ReadCsvRaises: no except clause, the exception ends main.
ReadCsvRaisesUncaught ==
    /\ pc = "loop"
    /\ fidx <= Len(csv_files)
    /\ File.kind = "unreadable"
    /\ notices' = notices \o <<Notice("processing", File.name),
                              Notice("unexpected_error", 0)>>
    /\ pc' = "done"
    /\ UNCHANGED <<csv_files, fidx, df_processed, df_clean, unwritable,
                   written, argVars, labelVars, resolverVars>>

\* print Processing, process_file: pd.read_csv raises, except returns None.
ReadCsvRaises ==
    /\ pc = "loop"
    /\ fidx <= Len(csv_files)
    /\ File.kind = "unreadable"
    /\ notices' = notices \o <<Notice("processing", File.name),
                              Notice("error_processing", File.name)>>
    /\ df_processed' = None
    /\ pc' = "returned"
    /\ UNCHANGED <<csv_files, fidx, df_clean, unwritable, written, argVars,
                   labelVars, resolverVars>>

\* Mutant of CalculatePriceVariation: process_file returns None for a table
\* with neither Datetime nor Date, as data_transformation.process_file does.
CalculatePriceVariationNeedsTime ==
    /\ pc = "read"
    /\ File.kind # "noclose"
    /\ IF File.kind = "notime"
       THEN /\ df_processed' = None
            /\ pc' = "returned"
            /\ UNCHANGED <<close, price_variation>>
       ELSE /\ close' = File.close
            /\ price_variation' = calculate_price_variation(File.close)
            /\ pc' = "varied"
            /\ UNCHANGED df_processed
    /\ UNCHANGED <<csv_files, fidx, df_clean, unwritable, written, notices,
                   argVars, classified, shifted, resolverVars>>

CalculatePriceVariation ==
    /\ pc = "read"
    /\ File.kind # "noclose"
    /\ close' = File.close
    /\ price_variation' = calculate_price_variation(File.close)
    /\ pc' = "varied"
    /\ UNCHANGED <<mainVars, argVars, classified, shifted, resolverVars>>

\* df['Close'] raises KeyError, except returns None.
CalculatePriceVariationRaises ==
    /\ pc = "read"
    /\ File.kind = "noclose"
    /\ notices' = Append(notices, Notice("error_processing", File.name))
    /\ df_processed' = None
    /\ pc' = "returned"
    /\ UNCHANGED <<csv_files, fidx, df_clean, unwritable, written, argVars,
                   labelVars, resolverVars>>

LabelAnomalies ==
    /\ pc = "varied"
    /\ classified' = label_anomalies(price_variation, threshold)
    /\ pc' = "labeled"
    /\ UNCHANGED <<mainVars, argVars, close, price_variation, shifted,
                   resolverVars>>

ApplyCurveShifting ==
    /\ pc = "labeled"
    /\ shifted' = apply_curve_shifting(classified, shift_hours)
    /\ pc' = "shifted"
    /\ UNCHANGED <<mainVars, argVars, close, price_variation, classified,
                   resolverVars>>

\* df = df.copy(); anomaly_series = df['Anomaly']
ResolverEnter ==
    /\ pc = "shifted"
    /\ work' = shifted
    /\ series' = shifted
    /\ row' = FirstRow
    /\ hist' = <<>>
    /\ pass' = 1
    /\ pc' = "resolving"
    /\ UNCHANGED <<mainVars, argVars, labelVars, resolved, rerun>>

\* One iteration of for i in range(1, len(anomaly_series)).
ResolverStep ==
    /\ pc = "resolving"
    /\ row <= Len(work)
    /\ work' = LoopBody(series, work, row)
    /\ series' = SeriesAfterWrite(series, work')
    /\ hist' = Append(hist, work)
    /\ row' = row + 1
    /\ UNCHANGED <<mainVars, argVars, labelVars, pass, resolved, rerun, pc>>

\* return df
ResolverReturn ==
    /\ pc = "resolving"
    /\ row > Len(work)
    /\ IF pass = 1
       THEN /\ resolved' = work
            /\ pc' = "resolved"
            /\ UNCHANGED rerun
       ELSE /\ rerun' = work
            /\ pc' = "rerun"
            /\ UNCHANGED resolved
    /\ UNCHANGED <<mainVars, argVars, labelVars, work, series, row, hist, pass>>

\* process_file returns df to main.
ProcessFileReturn ==
    /\ pc = "resolved"
    /\ df_processed' = Labeled(File, price_variation, resolved)
    /\ pc' = "returned"
    /\ UNCHANGED <<csv_files, fidx, df_clean, unwritable, written, notices,
                   argVars, labelVars, resolverVars>>

\* df_processed is not None: to_csv writes the file.
SaveCsv ==
    /\ pc = "returned"
    /\ df_processed # None
    /\ File.name \notin unwritable
    /\ written' = (File.name :> df_processed) @@ written
    /\ notices' = Append(notices, Notice("saved", File.name))
    /\ fidx' = fidx + 1
    /\ pc' = "loop"
    /\ UNCHANGED <<csv_files, df_processed, df_clean, unwritable, argVars,
                   labelVars, resolverVars>>

\* df_processed is not None: to_csv raises, the except prints.
SaveCsvRaises ==
    /\ pc = "returned"
    /\ df_processed # None
    /\ File.name \in unwritable
    /\ notices' = Append(notices, Notice("error_saving", File.name))
    /\ fidx' = fidx + 1
    /\ pc' = "loop"
    /\ UNCHANGED <<csv_files, df_processed, df_clean, unwritable, written,
                   argVars, labelVars, resolverVars>>

\* else: print Skipping
SkipFile ==
    /\ pc = "returned"
    /\ df_processed = None
    /\ notices' = Append(notices, Notice("skipping", File.name))
    /\ fidx' = fidx + 1
    /\ pc' = "loop"
    /\ UNCHANGED <<csv_files, df_processed, df_clean, unwritable, written,
                   argVars, labelVars, resolverVars>>

Next ==
    \/ MainNoFiles
    \/ MainReturn
    \/ ReadCsv
    \/ ReadCsvRaises
    \/ CalculatePriceVariation
    \/ CalculatePriceVariationRaises
    \/ LabelAnomalies
    \/ ApplyCurveShifting
    \/ ResolverEnter
    \/ ResolverStep
    \/ ResolverReturn
    \/ ProcessFileReturn
    \/ SaveCsv
    \/ SaveCsvRaises
    \/ SkipFile

Spec == Init /\ [][Next]_vars

-----------------------------------------------------------------------------
(* handle_interleaved_anomalies called on any label column, and called      *)
(* again on the column it returned.                                         *)

InitResolver ==
    /\ csv_files = <<>>
    /\ fidx = 1
    /\ unwritable = {}
    /\ threshold = 1
    /\ shift_hours = 0
    /\ df_processed = None
    /\ df_clean = Unbound
    /\ written = NoFile
    /\ notices = <<>>
    /\ close = <<>>
    /\ price_variation = <<>>
    /\ classified = <<>>
    /\ shifted \in LabelSeries
    /\ work = <<>>
    /\ series = <<>>
    /\ row = FirstRow
    /\ hist = <<>>
    /\ pass = 1
    /\ resolved = <<>>
    /\ rerun = <<>>
    /\ pc = "shifted"

ResolverAgain ==
    /\ pc = "resolved"
    /\ work' = resolved
    /\ series' = resolved
    /\ row' = FirstRow
    /\ hist' = <<>>
    /\ pass' = 2
    /\ pc' = "resolving"
    /\ UNCHANGED <<mainVars, argVars, labelVars, resolved, rerun>>

NextResolver ==
    \/ ResolverEnter
    \/ ResolverStep
    \/ ResolverReturn
    \/ ResolverAgain

SpecResolver == InitResolver /\ [][NextResolver]_vars

-----------------------------------------------------------------------------
(* dataset_construction.main over a batch of several files. *)

BatchCloses == {<<100, 105, 100>>, <<100, 95, 95, 105>>}

BatchFile(n) ==
    {[name |-> n, kind |-> k, close |-> c] :
        k \in FileKinds, c \in BatchCloses}

Batches ==
    UNION {{b \in [1..n -> UNION {BatchFile(k) : k \in 1..n}] :
               \A k \in 1..n : b[k].name = k} : n \in 1..MaxFiles}

InitBatch ==
    /\ csv_files \in Batches
    /\ fidx = 1
    /\ unwritable \in {{}} \cup {{k} : k \in 1..Len(csv_files)}
    /\ threshold = 1
    /\ shift_hours = 1
    /\ df_clean = Unbound
    /\ InitLocals
    /\ pc = "loop"

NextBatch ==
    \/ MainReturn
    \/ ReadCsv
    \/ ReadCsvRaises
    \/ CalculatePriceVariation
    \/ CalculatePriceVariationRaises
    \/ LabelAnomalies
    \/ ApplyCurveShifting
    \/ ResolverEnter
    \/ ResolverStep
    \/ ResolverReturn
    \/ ProcessFileReturn
    \/ SaveCsv
    \/ SaveCsvRaises
    \/ SkipFile

SpecBatch == InitBatch /\ [][NextBatch]_vars

-----------------------------------------------------------------------------
(* integrate_indicators.main and process_file.  The indicator columns are   *)
(* the library's: a table records only where it was read from, whether the  *)
(* indicators were added and whether dropna was applied.                    *)

\* integrate_technical_indicators: without a time column the table comes
\* back as read.
Indicators(f) ==
    [origin |-> f.name, close |-> f.close, indicators |-> f.kind = "ok",
     dropna |-> FALSE]

Dropna(df) == [df EXCEPT !.dropna = TRUE]

InitIntegrate ==
    /\ csv_files \in Batches
    /\ fidx = 1
    /\ unwritable \in {{}} \cup {{k} : k \in 1..Len(csv_files)}
    /\ threshold = 1
    /\ shift_hours = 0
    /\ df_clean = Unbound
    /\ InitLocals
    /\ pc = "loop"

\* print Processing; process_file returns the table.
IntProcessFile ==
    /\ pc = "loop"
    /\ fidx <= Len(csv_files)
    /\ File.kind \in {"ok", "notime"}
    /\ notices' = notices \o
          (IF File.kind = "notime"
           THEN <<Notice("processing", File.name),
                  Notice("no_time_column", File.name)>>
           ELSE <<Notice("processing", File.name)>>)
    /\ df_processed' = Indicators(File)
    /\ pc' = "returned"
    /\ UNCHANGED <<csv_files, fidx, df_clean, unwritable, written, argVars,
                   labelVars, resolverVars>>

\* print Processing; process_file: read_csv or df['Close'] raises, the
\* except returns None.
IntProcessFileRaises ==
    /\ pc = "loop"
    /\ fidx <= Len(csv_files)
    /\ File.kind \in {"unreadable", "noclose"}
    /\ notices' = notices \o <<Notice("processing", File.name),
                              Notice("error_processing", File.name)>>
    /\ df_processed' = None
    /\ pc' = "returned"
    /\ UNCHANGED <<csv_files, fidx, df_clean, unwritable, written, argVars,
                   labelVars, resolverVars>>

\* if df_processed is not None: df_clean = df_processed.dropna()
\* There is no else: df_clean keeps what it was.
IntDropna ==
    /\ pc = "returned"
    /\ df_clean' = IF df_processed # None
                   THEN Dropna(df_processed)
                   ELSE df_clean
    /\ pc' = "cleaned"
    /\ UNCHANGED <<csv_files, fidx, df_processed, unwritable, written,
                   notices, argVars, labelVars, resolverVars>>

\* if df_clean is not None, df_clean not bound yet: UnboundLocalError leaves
\* main, the script's except prints.
IntUnboundLocal ==
    /\ pc = "cleaned"
    /\ df_clean = Unbound
    /\ notices' = Append(notices, Notice("unexpected_error", 0))
    /\ pc' = "done"
    /\ UNCHANGED <<csv_files, fidx, df_processed, df_clean, unwritable,
                   written, argVars, labelVars, resolverVars>>

\* if df_clean is not None: to_csv (writes, or raises and the except
\* prints); else: print Skipping
IntSaveOrSkip ==
    /\ pc = "cleaned"
    /\ df_clean # Unbound
    /\ IF df_clean # None
       THEN IF File.name \notin unwritable
            THEN /\ written' = (File.name :> df_clean) @@ written
                 /\ notices' = Append(notices, Notice("saved", File.name))
            ELSE /\ notices' =
                        Append(notices, Notice("error_saving", File.name))
                 /\ UNCHANGED written
       ELSE /\ notices' = Append(notices, Notice("skipping", File.name))
            /\ UNCHANGED written
    /\ fidx' = fidx + 1
    /\ pc' = "loop"
    /\ UNCHANGED <<csv_files, df_processed, df_clean, unwritable, argVars,
                   labelVars, resolverVars>>

NextIntegrate ==
    \/ MainReturn
    \/ IntProcessFile
    \/ IntProcessFileRaises
    \/ IntDropna
    \/ IntUnboundLocal
    \/ IntSaveOrSkip

SpecIntegrate == InitIntegrate /\ [][NextIntegrate]_vars

-----------------------------------------------------------------------------
(* Stages of process_file for the file being labelled. *)

AfterLabelling == pc \in {"labeled", "shifted", "resolving", "resolved"}

AfterShifting == pc \in {"shifted", "resolving", "resolved"}

Worked == /\ csv_files # <<>>
          /\ fidx = 1
          /\ File.kind = "ok"
          /\ File.close = WorkedClose
          /\ threshold = 1
          /\ shift_hours = 1

NoAdjacentConflict(a) ==
    \A k \in 2..Len(a) : ~Conflict(a[k], a[k-1])

\* The column of df when the resolver's loop variable was r (r <= row).
At(r) == IF r < row THEN hist[r - 1] ELSE work

\* Rows r-1, r, r+1 of column a hold A, B, A: non-stable, A # B.
Alternating(a, r) ==
    /\ Conflict(a[r], a[r-1])
    /\ a[r+1] = a[r-1]

-----------------------------------------------------------------------------
(* C1, as stated: on closes [100,100,105,100,95,95], threshold 1 and        *)
(* shift_hours 1, the shifted labels are [2,2,2,0,0,0], the resolver        *)
(* changes nothing and the final Anomaly column is [2,2,2,0,0,0].           *)
C1_WorkedScenarioAsStated ==
    Worked =>
        /\ AfterShifting => shifted = <<2, 2, 2, 0, 0, 0>>
        /\ pc = "resolved" =>
              /\ resolved = shifted
              /\ resolved = <<2, 2, 2, 0, 0, 0>>

(* C1, amended: on that input the classification is [0,1,2,2,0,0] (bar 0   *)
(* reads price_variation[1] = 0), the shifted labels are [1,2,2,2,0,0], the *)
(* resolver sets the conflicting rows 0 and 1 to Stable, and the final      *)
(* Anomaly column is [0,0,2,2,0,0].                                         *)
C1_WorkedScenario ==
    Worked =>
        /\ AfterLabelling => classified = <<0, 1, 2, 2, 0, 0>>
        /\ AfterShifting => shifted = <<1, 2, 2, 2, 0, 0>>
        /\ pc = "resolved" => resolved = <<0, 0, 2, 2, 0, 0>>
        /\ pc = "returned" =>
              /\ df_processed # None
              /\ df_processed.anomaly = <<0, 0, 2, 2, 0, 0>>

C1_Witness == Worked /\ pc = "returned" /\ df_processed # None

(* C2: for every label column, the column handle_interleaved_anomalies      *)
(* returns has no adjacent pair of different non-stable labels.             *)
C2_NoAdjacentConflict ==
    pc = "resolved" =>
        /\ Len(resolved) = Len(shifted)
        /\ NoAdjacentConflict(resolved)

C2_Witness ==
    /\ pc = "resolved"
    /\ \E k \in 3..Len(shifted) :
          /\ Conflict(shifted[k], shifted[k-1])
          /\ Conflict(shifted[k-1], shifted[k-2])

(* C3: after apply_curve_shifting, every non-stable row i has a row j with  *)
(* i <= j <= i + shift_hours whose classified (pre-shift) label is the      *)
(* shifted label of row i.                                                  *)
C3_ShiftWindowBound ==
    AfterShifting =>
        \A p \in 1..Len(shifted) :
            shifted[p] # 0 =>
                \E j \in p..Min(p + shift_hours, Len(classified)) :
                    classified[j] = shifted[p]

C3_Witness ==
    /\ pc = "shifted"
    /\ shift_hours >= 1
    /\ \E p \in 1..Len(shifted) :
          /\ shifted[p] # 0
          /\ classified[p] # shifted[p]
          /\ classified[Min(p + shift_hours, Len(classified))] = shifted[p]

(* C4: label_anomalies gives bar i the label decided by                     *)
(* price_variation[i+1] alone: Upward above the threshold, Downward below   *)
(* its negation, Stable otherwise; the last bar is Stable, and              *)
(* price_variation[0] influences no label.                                  *)
OtherFloats == {NaN, Inf, Num(0, 1), Num(1000, 1), Num(0 - 1000, 1)}

C4_Classification ==
    AfterLabelling =>
        /\ Len(classified) = Len(price_variation)
        /\ \A p \in 1..Len(classified) :
              classified[p] =
                  IF p = Len(classified) THEN 0
                  ELSE IF Gt(price_variation[p+1], threshold) THEN 1
                  ELSE IF Lt(price_variation[p+1], 0 - threshold) THEN 2
                  ELSE 0
        /\ Len(price_variation) > 0 =>
              \A v \in OtherFloats :
                  label_anomalies([price_variation EXCEPT ![1] = v],
                                  threshold) = classified

C4_Witness ==
    /\ pc = "labeled"
    /\ threshold > 0
    /\ \E p, q \in 1..Len(classified) :
          /\ classified[p] = 1
          /\ classified[q] = 2
          /\ p + 1 < q
          /\ classified[p+1] = 0

(* C5: apply_curve_shifting gives row p the classified label of the largest *)
(* non-stable row j in [p, p + shift_hours] (clipped to the last row), and  *)
(* Stable when there is none.                                               *)
C5_LastWriteWins ==
    AfterShifting =>
        /\ Len(shifted) = Len(classified)
        /\ \A p \in 1..Len(shifted) :
              LET win == {j \in p..Min(p + shift_hours, Len(classified)) :
                             classified[j] # 0}
              IN  shifted[p] =
                      IF win = {} THEN 0
                      ELSE classified[CHOOSE j \in win :
                                          \A m \in win : m <= j]

C5_Witness ==
    /\ pc = "shifted"
    /\ \E p, q \in 1..Len(classified) :
          /\ p < q
          /\ q - p <= shift_hours
          /\ Conflict(classified[p], classified[q])
          /\ shifted[1] = classified[p]
          /\ p - shift_hours < 1

(* C6: handle_interleaved_anomalies is one pass over rows 1..n-1 that       *)
(* compares each pair with the values the pass has already written: when    *)
(* the pass reaches rows holding A, B, A (non-stable, A # B), the first     *)
(* pair is zeroed, the second pair then does not trigger, and the rows hold *)
(* Stable, Stable, A; the first two stay Stable in the returned column, and *)
(* the third stays A unless the pair after it conflicts.                    *)
C6_SinglePassMutating ==
    /\ pc \in {"resolved", "rerun"} =>
          Len(hist) = Max(0, Len(work) - 1)
    /\ pc \in {"resolving", "resolved", "rerun"} =>
          \A r \in FirstRow..(Len(work) - 1) :
              (row >= r + 2 /\ Alternating(At(r), r)) =>
                  /\ At(r+1) = [At(r) EXCEPT ![r-1] = 0, ![r] = 0]
                  /\ At(r+2) = At(r+1)
                  /\ At(r+2)[r-1] = 0
                  /\ At(r+2)[r] = 0
                  /\ At(r+2)[r+1] = At(r)[r+1]
                  /\ row > Len(work) =>
                        /\ work[r-1] = 0
                        /\ work[r] = 0
                        /\ (r + 1 = Len(work)
                               \/ ~Conflict(At(r)[r+2], At(r)[r+1]))
                              => work[r+1] = At(r)[r+1]

C6_Witness ==
    /\ pc = "resolved"
    /\ pass = 1
    /\ Len(shifted) >= 3
    /\ Alternating(shifted, 2)
    /\ resolved[1] = 0
    /\ resolved[2] = 0
    /\ resolved[3] = shifted[3]

(* C7, as stated: every adjacent pair of different non-stable labels of the *)
(* shifted column has both rows Stable in the resolver's output.            *)
C7_BothStableAsStated ==
    pc = "resolved" =>
        \A k \in 2..Len(shifted) :
            Conflict(shifted[k], shifted[k-1]) =>
                resolved[k] = 0 /\ resolved[k-1] = 0

(* C7, amended: every adjacent pair (i-1, i) of different non-stable labels *)
(* of the shifted column has row i-1 Stable in the resolver's output, and   *)
(* row i too when i = 1 or the pair (i-2, i-1) is not itself such a pair.   *)
C7_EarlierRowStable ==
    pc = "resolved" =>
        \A k \in 2..Len(shifted) :
            Conflict(shifted[k], shifted[k-1]) =>
                /\ resolved[k-1] = 0
                /\ (k = 2 \/ ~Conflict(shifted[k-1], shifted[k-2]))
                      => resolved[k] = 0

C7_Witness ==
    /\ pc = "resolved"
    /\ \E k \in 3..Len(shifted) :
          /\ Conflict(shifted[k], shifted[k-1])
          /\ Conflict(shifted[k-1], shifted[k-2])
          /\ resolved[k-1] = 0
          /\ resolved[k] # 0

(* C8: handle_interleaved_anomalies called on the column it returned        *)
(* returns that column unchanged.                                           *)
C8_Idempotent ==
    pc = "rerun" => rerun = resolved

C8_Witness ==
    /\ pc = "rerun"
    /\ resolved # shifted
    /\ \E k \in 1..Len(resolved) : resolved[k] # 0

-----------------------------------------------------------------------------
(* Batches. *)

Names == 1..Len(csv_files)

\* process_file returns None for the file.
Fails(k) == csv_files[k].kind \in {"unreadable", "noclose"}

Printed(what, name) ==
    \E j \in 1..Len(notices) : notices[j] = Notice(what, name)

\* The Anomaly column of the batch's close series for threshold 1 and
\* shift_hours 1, worked by hand.
ExpectedAnomaly(c) ==
    IF c = <<100, 105, 100>> THEN <<2, 2, 0>>
    ELSE IF c = <<100, 95, 95, 105>> THEN <<0, 0, 1, 0>>
    ELSE <<>>

\* The output file under name k holds file k's own labelled table.
OwnLabelledOutput(k) ==
    /\ k \in DOMAIN written
    /\ written[k].origin = k
    /\ written[k].close = csv_files[k].close
    /\ Len(written[k].price_variation) = Len(csv_files[k].close)
    /\ written[k].anomaly = ExpectedAnomaly(csv_files[k].close)

ExactlyOneFails ==
    /\ Cardinality({k \in Names : Fails(k)}) = 1
    /\ \A k \in unwritable : k \in Names => Fails(k)

(* C9: in a construction batch where exactly one file fails in process_file *)
(* (and no save raises), no output is ever written under the failing name,  *)
(* and when main ends every file was reached, each of the N-1 others has an *)
(* output holding its own labelled table, and one skip notice names the     *)
(* failing file.                                                            *)
C9_BatchIsolation ==
    ExactlyOneFails =>
        /\ \A k \in Names : Fails(k) => k \notin DOMAIN written
        /\ pc = "done" =>
              /\ fidx = Len(csv_files) + 1
              /\ \A k \in Names : Printed("processing", k)
              /\ \A k \in Names : ~Fails(k) => OwnLabelledOutput(k)
              /\ \A k \in Names : Fails(k) <=> Printed("skipping", k)
              /\ DOMAIN written = {k \in Names : ~Fails(k)}
              /\ Cardinality(DOMAIN written) = Len(csv_files) - 1

C9_Witness ==
    /\ pc = "done"
    /\ ExactlyOneFails
    /\ Len(csv_files) = MaxFiles
    /\ Fails(2)
    /\ OwnLabelledOutput(1)
    /\ OwnLabelledOutput(MaxFiles)

(* C10: in an indicator-integration batch, a file whose process_file        *)
(* returned None never gets an output under its name, a skip notice is      *)
(* printed for it, and every other file is processed and saved with its own *)
(* table (when its save does not raise).                                    *)
C10_IntegrateIsolation ==
    /\ \A k \in Names : Fails(k) => k \notin DOMAIN written
    /\ pc = "done" =>
          /\ \A k \in Names : Fails(k) => Printed("skipping", k)
          /\ \A k \in Names :
                (~Fails(k) /\ k \notin unwritable) =>
                    /\ k \in DOMAIN written
                    /\ written[k].origin = k

\* File k has a Close column and neither Datetime nor Date.
NoTime(k) == csv_files[k].kind = "notime"

(* C11, as stated: in the construction batch a file with a Close column and *)
(* neither a Datetime nor a Date column is skipped: no output is written    *)
(* under its name, no error is raised, and the batch goes on.               *)
C11_NoTimeSkippedAsStated ==
    \A k \in Names :
        NoTime(k) =>
            /\ k \notin DOMAIN written
            /\ ~Printed("error_processing", k)
            /\ pc = "done" => fidx = Len(csv_files) + 1

(* C11, amended: in the construction batch such a file is not skipped: it   *)
(* is labelled and saved under its name like any other file (when its save  *)
(* does not raise), no error and no skip notice is printed for it, and the  *)
(* batch goes on to the next file.                                          *)
C11_NoTimeLabelled ==
    \A k \in Names :
        NoTime(k) =>
            /\ ~Printed("error_processing", k)
            /\ ~Printed("skipping", k)
            /\ pc = "done" =>
                  /\ fidx = Len(csv_files) + 1
                  /\ \A j \in Names : Printed("processing", j)
                  /\ k \notin unwritable =>
                        /\ OwnLabelledOutput(k)
                        /\ Printed("saved", k)

C11_Witness ==
    /\ pc = "done"
    /\ Len(csv_files) >= 2
    /\ NoTime(1)
    /\ unwritable = {}
    /\ OwnLabelledOutput(1)
    /\ Printed("processing", Len(csv_files))

\* process_file holds the table calculate_price_variation returned.
AfterVariation ==
    pc \in {"varied", "labeled", "shifted", "resolving", "resolved"}

\* The float v is the exact rational a / b (b > 0).
IsRatio(v, a, b) == v.k = "num" /\ v.d > 0 /\ v.n * b = a * v.d

(* C12: calculate_price_variation leaves price_variation[0] undefined (not  *)
(* zero) and sets price_variation[i] = (close[i] / close[i-1] - 1) * 100    *)
(* for i > 0 (non-finite when close[i-1] is 0), and changes neither the     *)
(* number or order of the rows nor the close values.                        *)
C12_VariationCorrect ==
    AfterVariation =>
        /\ close = File.close
        /\ Len(price_variation) = Len(close)
        /\ Len(price_variation) > 0 =>
              /\ price_variation[1].k = "nan"
              /\ ~IsRatio(price_variation[1], 0, 1)
        /\ \A p \in 2..Len(close) :
              IF close[p-1] # 0
              THEN IsRatio(price_variation[p],
                           (close[p] - close[p-1]) * 100, close[p-1])
              ELSE price_variation[p].k =
                       IF close[p] = 0 THEN "nan" ELSE "inf"

C12_Witness ==
    /\ pc = "varied"
    /\ Len(close) >= 4
    /\ \E p, q, z \in 2..Len(close) :
          /\ close[p-1] # 0 /\ close[p] > close[p-1]
          /\ close[q-1] # 0 /\ close[q] < close[q-1]
          /\ close[z-1] = 0
          /\ IsRatio(price_variation[p],
                     (close[p] - close[p-1]) * 100, close[p-1])

\* The working column of apply_curve_shifting after the first k iterations
\* of its loop.
ShiftPrefix(a, sh, k) == ShiftLoop(a, SubSeq(AnomalyIndices(a), 1, k), sh)

\* The snapshot-based shifter: rows j, j+1, ... in ascending order, each
\* non-stable row of the frozen column orig writes its orig label over
\* [max(first row, j - sh), j].
RECURSIVE SnapshotShift(_, _, _, _)
SnapshotShift(cur, orig, j, sh) ==
    IF j > Len(orig)
    THEN cur
    ELSE IF orig[j] = 0
         THEN SnapshotShift(cur, orig, j + 1, sh)
         ELSE SnapshotShift(
                  [m \in 1..Len(cur) |->
                      IF m <= j /\ m >= j - sh THEN orig[j] ELSE cur[m]],
                  orig, j + 1, sh)

(* C13: in apply_curve_shifting the label read at each anomaly row idx,     *)
(* when its window is applied, is idx's pre-shift label, and the column     *)
(* returned is the one the snapshot-based shifter computes from the frozen  *)
(* pre-shift labels with the writes in ascending row order.                 *)
C13_InPlaceEqualsSnapshot ==
    AfterShifting =>
        /\ \A k \in 1..Len(AnomalyIndices(classified)) :
              LET idx == AnomalyIndices(classified)[k]
              IN  ShiftPrefix(classified, shift_hours, k - 1)[idx]
                      = classified[idx]
        /\ shifted = SnapshotShift(classified, classified, 1, shift_hours)

C13_Witness ==
    /\ pc = "shifted"
    /\ shift_hours >= 1
    /\ Len(AnomalyIndices(classified)) >= 3
    /\ \E k \in 2..Len(AnomalyIndices(classified)) :
          LET idx  == AnomalyIndices(classified)[k]
              prev == AnomalyIndices(classified)[k-1]
          IN  /\ idx = prev + 1
              /\ Conflict(classified[idx], classified[prev])
              /\ ShiftPrefix(classified, shift_hours, k - 1)[prev]
                     = classified[prev]
              /\ shifted[prev] = classified[idx]

\* Column b is column a with some rows set to Stable, nothing else.
OnlyStabilised(a, b) ==
    /\ Len(b) = Len(a)
    /\ \A k \in 1..Len(a) : b[k] = a[k] \/ b[k] = 0

(* C14: handle_interleaved_anomalies only relabels bars to Stable: at every *)
(* step of its loop and in the column it returns, each row holds its input  *)
(* label or Stable (so a Stable bar stays Stable and no bar changes         *)
(* polarity), and the number and order of the rows are the input's.         *)
C14_OnlyRelabelsToStable ==
    /\ (pc = "resolving" /\ pass = 1) => OnlyStabilised(shifted, work)
    /\ pc = "resolved" =>
          /\ OnlyStabilised(shifted, resolved)
          /\ \A k \in 1..Len(shifted) : shifted[k] = 0 => resolved[k] = 0
          /\ \A k \in 1..Len(shifted) :
                resolved[k] # 0 => resolved[k] = shifted[k]

C14_Witness ==
    /\ pc = "resolved"
    /\ \E j, k, m \in 1..Len(shifted) :
          /\ shifted[j] # 0 /\ resolved[j] = 0
          /\ shifted[k] # 0 /\ resolved[k] = shifted[k]
          /\ shifted[m] = 0 /\ resolved[m] = 0

=============================================================================
